---- MODULE Spec2Model ----
(***************************************************************************)
(* extractUrlData: the two-stage fetch pipeline (static fetch, then the    *)
(* headless renderer as fallback) and the ordered-fallback metadata        *)
(* extraction, modelled from src/unnamed/part_000.                         *)
(*                                                                         *)
(* Texts are TLA+ strings; TLC evaluates Len, \o and SubSeq on them, so    *)
(* includes(), replace(/\s+/g, ' '), trim() and slice() are computed       *)
(* character by character.  A JavaScript value that may be null or         *)
(* undefined is a sequence of at most one string: <<>> is null/undefined,  *)
(* <<s>> is the string s.                                                  *)
(***************************************************************************)
EXTENDS Integers, Sequences, FiniteSets, TLC

(***************************************************************************)
(* Bounds of the model.                                                    *)
(***************************************************************************)
\* The clock takes the values 0..MaxClock (milliseconds since the epoch).
MaxClock == 1
\* Length of the long title of the test documents (the spec's example: 300).
LongTitleLen == 300
\* Length by which the long article text exceeds the 300-character cut.
ArticleExtra == 40
\* Length by which the long body text exceeds the 1000-character cut.
BodyExtra == 30

(***************************************************************************)
(* JavaScript values and string primitives.                                *)
(***************************************************************************)
Null == <<>>
Str(s) == <<s>>

\* JavaScript truthiness of a string-or-null value: null, undefined and ""
\* are falsy.
Truthy(v) == v # Null /\ v[1] # ""

\* a || b on string-or-null values.
Or(a, b) == IF Truthy(a) THEN a ELSE b

CharAt(s, i) == SubSeq(s, i, i)

\* The characters matched by \s and trimmed by trim() (those the model uses).
IsWhitespace(c) == c \in {" ", "\t", "\n", "\r", "\f"}

\* String.prototype.slice(0, n) for n >= 0.
Slice0(s, n) == IF Len(s) <= n THEN s ELSE SubSeq(s, 1, n)

\* String.prototype.includes.
Includes(hay, needle) ==
  \E i \in 1..(Len(hay) - Len(needle) + 1) :
    SubSeq(hay, i, i + Len(needle) - 1) = needle

\* String.prototype.startsWith.
StartsWith(s, p) == Len(s) >= Len(p) /\ SubSeq(s, 1, Len(p)) = p

\* What replace(/\s+/g, ' ') leaves of the character at position i: the
\* character itself, one space for the first character of a whitespace run,
\* nothing for the rest of the run.
ReplacedChar(s, i) ==
  IF ~IsWhitespace(CharAt(s, i)) THEN CharAt(s, i)
  ELSE IF i = 1 \/ ~IsWhitespace(CharAt(s, i - 1)) THEN " "
  ELSE ""

RECURSIVE ReplaceRange(_, _, _)
ReplaceRange(s, lo, hi) ==
  IF lo > hi THEN ""
  ELSE IF lo = hi THEN ReplacedChar(s, lo)
  ELSE LET mid == (lo + hi) \div 2
       IN ReplaceRange(s, lo, mid) \o ReplaceRange(s, mid + 1, hi)

\* text.replace(/\s+/g, ' ')
ReplaceWhitespaceRuns(s) == ReplaceRange(s, 1, Len(s))

RECURSIVE FirstNonWs(_, _)
FirstNonWs(s, i) ==
  IF i > Len(s) THEN i
  ELSE IF IsWhitespace(CharAt(s, i)) THEN FirstNonWs(s, i + 1) ELSE i

RECURSIVE LastNonWs(_, _)
LastNonWs(s, i) ==
  IF i < 1 THEN i
  ELSE IF IsWhitespace(CharAt(s, i)) THEN LastNonWs(s, i - 1) ELSE i

\* String.prototype.trim.
Trim(s) ==
  LET a == FirstNonWs(s, 1)
      b == LastNonWs(s, Len(s))
  IN IF a > b THEN "" ELSE SubSeq(s, a, b)

\* The VARCHAR limit of the display fields.
VarCharLimit == 255

\* Variant: the cut is taken before the normalization.
truncateToVarCharLimitCutFirst(text) ==
  IF ~Truthy(text) THEN ""
  ELSE Trim(ReplaceWhitespaceRuns(Slice0(text[1], VarCharLimit)))

\* truncateToVarCharLimit(text); text may be null or undefined.
truncateToVarCharLimit(text) ==
  IF ~Truthy(text) THEN ""
  ELSE Slice0(Trim(ReplaceWhitespaceRuns(text[1])), VarCharLimit)

\* normalizeText(text); text may be null or undefined.
normalizeText(text) ==
  IF ~Truthy(text) THEN ""
  ELSE Trim(ReplaceWhitespaceRuns(text[1]))

(***************************************************************************)
(* new URL(url).hostname: the URL must start with a scheme followed by     *)
(* "//" and a non-empty host; the hostname ends at the first "/", "?",     *)
(* "#" or ":" after the scheme.  A string that does not parse makes the    *)
(* URL constructor (and fetch, and page.goto) throw.                       *)
(***************************************************************************)
RECURSIVE IndexOfFrom(_, _, _)
\* The first index >= i at which sub occurs in s, or 0.
IndexOfFrom(s, sub, i) ==
  IF i + Len(sub) - 1 > Len(s) THEN 0
  ELSE IF SubSeq(s, i, i + Len(sub) - 1) = sub THEN i
  ELSE IndexOfFrom(s, sub, i + 1)

SchemeLen(u) ==
  IF StartsWith(u, "https://") THEN 8
  ELSE IF StartsWith(u, "http://") THEN 7
  ELSE 0

RECURSIVE HostEnd(_, _)
HostEnd(u, i) ==
  IF i > Len(u) THEN i
  ELSE IF CharAt(u, i) \in {"/", "?", "#", ":"} THEN i
  ELSE HostEnd(u, i + 1)

\* Whether new URL(u) succeeds.
IsValidUrl(u) == SchemeLen(u) > 0 /\ HostEnd(u, SchemeLen(u) + 1) > SchemeLen(u) + 1

\* new URL(u).hostname, for a valid u.
Hostname(u) == SubSeq(u, SchemeLen(u) + 1, HostEnd(u, SchemeLen(u) + 1) - 1)

(***************************************************************************)
(* checkIfJavaScriptRequired                                               *)
(***************************************************************************)
jsRequiredDomains == <<"qiita.com", "zenn.dev", "note.com", "medium.com">>

jsIndicators ==
  <<"id=\"__next\"", "id=\"root\"", "id=\"app\"", "data-reactroot", "__NUXT__">>

\* jsIndicators.some(indicator => html.includes(indicator))
HasJsIndicator(html) ==
  \E k \in 1..Len(jsIndicators) : Includes(html, jsIndicators[k])

\* jsRequiredDomains.some(domain => hostname.includes(domain))
HostnameMatchesDomain(hostname) ==
  \E k \in 1..Len(jsRequiredDomains) : Includes(hostname, jsRequiredDomains[k])

\* Variant: every indicator is required instead of some.
checkIfJavaScriptRequiredEveryIndicator(html, u) ==
  IF HostnameMatchesDomain(Hostname(u)) THEN TRUE
  ELSE \E k \in 1..Len(jsIndicators) : ~Includes(html, jsIndicators[k])

\* Variant: the domain list is not consulted.
checkIfJavaScriptRequiredNoDomains(html, u) == HasJsIndicator(html)

checkIfJavaScriptRequired(html, u) ==
  IF HostnameMatchesDomain(Hostname(u)) THEN TRUE
  ELSE HasJsIndicator(html)

(***************************************************************************)
(* The DOM.  A node is an element (tag, attributes in source order,        *)
(* children) or a text node (tag "#text").  The result of a query that may *)
(* find nothing is a sequence of at most one node.                         *)
(***************************************************************************)
El(tag, attrs, kids) == [tag |-> tag, attrs |-> attrs, kids |-> kids, text |-> ""]
Txt(s) == [tag |-> "#text", attrs |-> <<>>, kids |-> <<>>, text |-> s]

\* element.getAttribute(name): the value, or null when the attribute is absent.
getAttribute(node, name) ==
  LET m == SelectSeq(node.attrs, LAMBDA a : a[1] = name)
  IN IF m = <<>> THEN Null ELSE Str(m[1][2])

\* Whether the class attribute of node lists the class c.
HasClass(node, c) ==
  LET v == getAttribute(node, "class")
  IN /\ v # Null
     /\ \E i \in 1..(Len(v[1]) - Len(c) + 1) :
          /\ SubSeq(v[1], i, i + Len(c) - 1) = c
          /\ (i = 1 \/ IsWhitespace(CharAt(v[1], i - 1)))
          /\ (i + Len(c) - 1 = Len(v[1]) \/ IsWhitespace(CharAt(v[1], i + Len(c))))

\* Whether the element matches a simple selector: ".cls", "tag" or
\* tag[attr="value"].
Matches(node, sel) ==
  IF StartsWith(sel, ".") THEN HasClass(node, SubSeq(sel, 2, Len(sel)))
  ELSE IF Includes(sel, "[") THEN
    LET lb == IndexOfFrom(sel, "[", 1)
        eq == IndexOfFrom(sel, "=", 1)
    IN /\ node.tag = SubSeq(sel, 1, lb - 1)
       /\ getAttribute(node, SubSeq(sel, lb + 1, eq - 1))
            = Str(SubSeq(sel, eq + 2, Len(sel) - 2))
  ELSE node.tag = sel

RECURSIVE Preorder(_), PreorderKids(_, _)
\* The elements of the subtree of node, node included, in document order.
Preorder(node) ==
  IF node.tag = "#text" THEN <<>>
  ELSE <<node>> \o PreorderKids(node.kids, 1)
PreorderKids(kids, i) ==
  IF i > Len(kids) THEN <<>>
  ELSE Preorder(kids[i]) \o PreorderKids(kids, i + 1)

\* document.querySelector(sel): the first matching element in document order.
querySelector(root, sel) ==
  LET m == SelectSeq(Preorder(root), LAMBDA n : Matches(n, sel))
  IN IF m = <<>> THEN <<>> ELSE <<m[1]>>

RECURSIVE textContent(_), TextOfKids(_, _)
\* node.textContent: the concatenated text of the subtree.
textContent(node) ==
  IF node.tag = "#text" THEN node.text ELSE TextOfKids(node.kids, 1)
TextOfKids(kids, i) ==
  IF i > Len(kids) THEN ""
  ELSE textContent(kids[i]) \o TextOfKids(kids, i + 1)

\* The selector group "script, style, nav, header, footer, aside".
NoiseSelectors == <<"script", "style", "nav", "header", "footer", "aside">>

MatchesAny(node, sels) == \E k \in 1..Len(sels) : Matches(node, sels[k])

RECURSIVE RemoveMatching(_, _), RemoveFromKids(_, _, _)
\* element.querySelectorAll(group).forEach(el => el.remove()): the element
\* without its descendants that match the group.
RemoveMatching(node, sels) ==
  IF node.tag = "#text" THEN node
  ELSE [node EXCEPT !.kids = RemoveFromKids(node.kids, sels, 1)]
RemoveFromKids(kids, sels, i) ==
  IF i > Len(kids) THEN <<>>
  ELSE IF kids[i].tag # "#text" /\ MatchesAny(kids[i], sels)
       THEN RemoveFromKids(kids, sels, i + 1)
       ELSE <<RemoveMatching(kids[i], sels)>> \o RemoveFromKids(kids, sels, i + 1)

RECURSIVE Serialize(_), SerializeKids(_, _), SerializeAttrs(_, _)
\* The HTML text of a node, as a server sends it and page.content() returns it.
Serialize(node) ==
  IF node.tag = "#text" THEN node.text
  ELSE "<" \o node.tag \o SerializeAttrs(node.attrs, 1) \o ">"
       \o SerializeKids(node.kids, 1) \o "</" \o node.tag \o ">"
SerializeKids(kids, i) ==
  IF i > Len(kids) THEN ""
  ELSE Serialize(kids[i]) \o SerializeKids(kids, i + 1)
SerializeAttrs(attrs, i) ==
  IF i > Len(attrs) THEN ""
  ELSE " " \o attrs[i][1] \o "=\"" \o attrs[i][2] \o "\"" \o SerializeAttrs(attrs, i + 1)

(***************************************************************************)
(* Number formatting: the template literal of the HTTP error and           *)
(* Date.prototype.toISOString (for instants of the first day of the        *)
(* epoch, which is where the model's clock lives).                         *)
(***************************************************************************)
Digit(d) == CharAt("0123456789", d + 1)
Pad2(n) == Digit((n \div 10) % 10) \o Digit(n % 10)
Pad3(n) == Digit((n \div 100) % 10) \o Pad2(n)

\* new Date(ms).toISOString(), 0 <= ms < 86400000.
toISOString(ms) ==
  "1970-01-01T" \o Pad2((ms \div 3600000) % 24) \o ":" \o Pad2((ms \div 60000) % 60)
    \o ":" \o Pad2((ms \div 1000) % 60) \o "." \o Pad3(ms % 1000) \o "Z"

(***************************************************************************)
(* The metadata extractor (the synchronous tail of extractUrlData).        *)
(***************************************************************************)
\* The six selector variants of getMetaContent, in the order of the source.
MetaSelectors(property) ==
  << "meta[property=\"" \o property \o "\"]",
     "meta[name=\"" \o property \o "\"]",
     "meta[property=\"og:" \o property \o "\"]",
     "meta[name=\"og:" \o property \o "\"]",
     "meta[property=\"twitter:" \o property \o "\"]",
     "meta[name=\"twitter:" \o property \o "\"]" >>

RECURSIVE FirstMetaFrom(_, _, _)
\* The for loop of getMetaContent from the k-th selector on: the first
\* selector that matches an element decides the result.
FirstMetaFrom(document, selectors, k) ==
  IF k > Len(selectors) THEN ""
  ELSE LET element == querySelector(document, selectors[k])
       IN IF element # <<>>
          THEN Or(getAttribute(element[1], "content"), Str(""))[1]
          ELSE FirstMetaFrom(document, selectors, k + 1)

getMetaContent(document, property) ==
  FirstMetaFrom(document, MetaSelectors(property), 1)

contentSelectors ==
  << "article", ".post-content", ".entry-content", ".content", ".post", "main",
     ".article-body", ".markdown-section", ".it-MdContent" >>

\* The cut of the text of a matched content element, and of the body.
ContentLimit == 300
BodyLimit == 1000

RECURSIVE ContentFromKeepNoise(_, _)
\* Variant: the noise elements are not removed from the matched element.
ContentFromKeepNoise(document, k) ==
  IF k > Len(contentSelectors)
  THEN LET body == querySelector(document, "body")
       IN IF body # <<>>
          THEN Slice0(Trim(textContent(RemoveMatching(body[1], NoiseSelectors))), BodyLimit)
          ELSE ""
  ELSE LET element == querySelector(document, contentSelectors[k])
       IN IF element # <<>>
          THEN Slice0(Trim(textContent(element[1])), ContentLimit)
          ELSE ContentFromKeepNoise(document, k + 1)

RECURSIVE ContentFrom(_, _)
\* The for loop of getContent from the k-th content selector on, then the
\* fallback to the body.
ContentFrom(document, k) ==
  IF k > Len(contentSelectors)
  THEN LET body == querySelector(document, "body")
       IN IF body # <<>>
          THEN Slice0(Trim(textContent(RemoveMatching(body[1], NoiseSelectors))), BodyLimit)
          ELSE ""
  ELSE LET element == querySelector(document, contentSelectors[k])
       IN IF element # <<>>
          THEN Slice0(Trim(textContent(RemoveMatching(element[1], NoiseSelectors))),
                      ContentLimit)
          ELSE ContentFrom(document, k + 1)

getContent(document) == ContentFrom(document, 1)

\* s.split(" | ")[1]: the part between the first and the second separator,
\* undefined when s has no separator.
SplitSecond(s) ==
  LET i == IndexOfFrom(s, " | ", 1)
  IN IF i = 0 THEN Null
     ELSE LET rest == SubSeq(s, i + 3, Len(s))
              j == IndexOfFrom(rest, " | ", 1)
          IN IF j = 0 THEN Str(rest) ELSE Str(SubSeq(rest, 1, j - 1))

\* document.querySelector(sel)?.textContent
TextOf(document, sel) ==
  LET e == querySelector(document, sel)
  IN IF e = <<>> THEN Null ELSE Str(textContent(e[1]))

\* The placeholder title of the source (a Japanese text meaning "no title").
NoTitle == "(no title)"

\* The argument of truncateToVarCharLimit for siteName.
SelectedSiteName(document, u) ==
  Or(Str(getMetaContent(document, "site_name")),
  Or(Str(getMetaContent(document, "og:site_name")),
  Or(LET t == TextOf(document, "title") IN IF t = Null THEN Null ELSE SplitSecond(t[1]),
     Str(Hostname(u)))))

\* Variant: the chain of title ends without the placeholder.
SelectedTitleNoPlaceholder(document) ==
  Or(Str(getMetaContent(document, "title")),
  Or(Str(getMetaContent(document, "og:title")),
  Or(TextOf(document, "h1"),
     TextOf(document, "title"))))

\* The argument of truncateToVarCharLimit for title.
SelectedTitle(document) ==
  Or(Str(getMetaContent(document, "title")),
  Or(Str(getMetaContent(document, "og:title")),
  Or(TextOf(document, "h1"),
  Or(TextOf(document, "title"),
     Str(NoTitle)))))

\* The argument of truncateToVarCharLimit for description.
SelectedDescription(document) ==
  Or(Str(getMetaContent(document, "description")),
  Or(Str(getMetaContent(document, "og:description")),
  Or(Str(getMetaContent(document, "twitter:description")),
     Str(""))))

SelectedPublishedAt(document, t) ==
  Or(Str(getMetaContent(document, "article:modified_time")),
  Or(Str(getMetaContent(document, "article:published_time")),
  Or(LET e == querySelector(document, "time")
     IN IF e = <<>> THEN Null ELSE getAttribute(e[1], "datetime"),
     Str(toISOString(t)))))

SelectedThumbnail(document) ==
  Or(Str(getMetaContent(document, "image")),
  Or(Str(getMetaContent(document, "og:image")),
  Or(Str(getMetaContent(document, "twitter:image")),
     Str(""))))

\* The articleData object literal; t is the value of the clock.
ArticleData(document, u, t) ==
  [ url         |-> u,
    siteName    |-> truncateToVarCharLimit(SelectedSiteName(document, u)),
    title       |-> truncateToVarCharLimit(SelectedTitle(document)),
    description |-> truncateToVarCharLimit(SelectedDescription(document)),
    publishedAt |-> SelectedPublishedAt(document, t)[1],
    thumbnail   |-> normalizeText(SelectedThumbnail(document)),
    content     |-> normalizeText(Str(getContent(document))) ]

(***************************************************************************)
(* The documents a server or the renderer may deliver.                     *)
(***************************************************************************)
RECURSIVE Rep(_, _)
\* n copies of the text c.
Rep(c, n) ==
  IF n <= 0 THEN ""
  ELSE IF n = 1 THEN c
  ELSE Rep(c, n \div 2) \o Rep(c, n - n \div 2)

Meta(attr, key, content) == El("meta", <<<<attr, key>>, <<"content", content>>>>, <<>>)
Page(headKids, bodyKids) ==
  El("html", <<>>, <<El("head", <<>>, headKids), El("body", <<>>, bodyKids)>>)

\* More than ContentLimit characters, with whitespace runs.
ArticleText == Rep("ab \n", 75 + ArticleExtra)
\* More than BodyLimit characters, with whitespace runs.
BodyText == Rep("b \n", 334 + BodyExtra)

\* An ordinary article page: title element, description, h1, time, and an
\* article element with noise descendants.
DocPlain ==
  Page(<< El("title", <<>>, <<Txt("Post | Blog | Home")>>),
          Meta("name", "description", "a\n\n  b") >>,
       << El("header", <<>>, <<El("h1", <<>>, <<Txt(" Heading\tOne ")>>)>>),
          El("time", <<<<"datetime", "2024-01-02T03:04:05.000Z">>>>, <<Txt("Jan 2")>>),
          El("div", <<<<"class", "wide post-content">>>>, <<Txt("teaser")>>),
          El("main", <<>>,
             << El("article", <<>>,
                   << El("script", <<>>, <<Txt("var x = 1;")>>),
                      El("nav", <<>>, <<Txt("menu")>>),
                      Txt("\n  "),
                      El("p", <<>>, <<Txt(ArticleText)>>),
                      El("aside", <<>>, <<Txt("ads")>>) >>) >>) >>)

\* A page with no metadata source at all.
DocBare ==
  Page(<<>>, <<El("p", <<>>, <<Txt("  just\n\nsome   text ")>>)>>)

\* The shell of a client-rendered application.
DocShell ==
  Page(<< El("title", <<>>, <<Txt("App")>>) >>,
       << El("div", <<<<"id", "root">>>>, <<>>),
          El("script", <<<<"src", "/bundle.js">>>>, <<>>) >>)

\* Long display fields and a long body without any content container.
DocLong ==
  Page(<< Meta("property", "og:title", Rep("t", LongTitleLen)),
          Meta("property", "og:site_name", " My \n  Site "),
          Meta("property", "og:description", Rep("abcd ", 60)),
          Meta("name", "twitter:image", " https://img.example/a.png ") >>,
       << El("nav", <<>>, <<Txt("menu")>>),
          El("div", <<>>, <<Txt(BodyText)>>),
          El("footer", <<>>, <<Txt("footer")>>) >>)

\* Meta elements that are present with empty or missing content, next to
\* later variants that have content.
DocEmptyMeta ==
  Page(<< Meta("property", "title", ""),
          Meta("name", "twitter:title", "Tw"),
          El("meta", <<<<"property", "description">>>>, <<>>),
          Meta("name", "twitter:description", "TwDesc") >>,
       << El("div", <<<<"class", "content">>>>, <<Txt("c")>>) >>)

\* Several variants with content, in a document order that differs from the
\* selector order.
DocOrder ==
  Page(<< Meta("name", "twitter:title", "ByTwitter"),
          Meta("property", "og:title", "ByOg"),
          Meta("name", "title", "ByName"),
          Meta("property", "article:published_time", "2023-05-06T07:08:09.000Z") >>,
       << El("h1", <<>>, <<Txt("H")>>),
          El("div", <<<<"class", "entry-content">>>>, <<Txt("entry")>>) >>)

\* A rendered application page: the mount point filled in.
DocRendered ==
  Page(<< El("title", <<>>, <<Txt("Rendered")>>),
          Meta("property", "og:title", "Rendered Title") >>,
       << El("div", <<<<"id", "root">>>>,
             << El("article", <<>>, <<Txt("Rendered   text")>>) >>) >>)

Documents == {DocPlain, DocBare, DocShell, DocLong, DocEmptyMeta, DocOrder, DocRendered}

\* new JSDOM(html).window.document: the document whose HTML text is html; the
\* empty text parses to an empty document.
JSDOM(html) ==
  IF html = "" THEN Page(<<>>, <<>>)
  ELSE CHOOSE d \in Documents : Serialize(d) = html

(***************************************************************************)
(* The inputs and the environment of one invocation.                       *)
(***************************************************************************)
\* formData.get("url"): absent, empty, or a text.
UrlInputs ==
  { Null, Str(""),
    Str("https://example.com/post"),
    Str("https://qiita.com/items/1"),
    Str("http://blog.medium.com:8080/x"),
    Str("https://notqiita.community.example.org/a"),
    Str("not a url") }

\* response.status and response.statusText of the static fetch.
Statuses == {200, 404, 503}
StatusText(st) ==
  CASE st = 200 -> "OK" [] st = 404 -> "Not Found" [] st = 503 -> "Service Unavailable"

\* response.ok
ResponseOk(st) == st >= 200 /\ st <= 299

\* The messages of the errors the platform raises.
FetchFailedMessage == "fetch failed"
AbortedMessage == "This operation was aborted"
BodyFailedMessage == "terminated"
LaunchFailedMessage == "Failed to launch the browser process!"
StepFailedMessage(stage) ==
  CASE stage = "newPage" -> "Protocol error (Target.createTarget): Target closed"
    [] stage = "setUserAgent" -> "Protocol error (Network.setUserAgentOverride): Target closed"
    [] stage = "goto" -> "Navigation timeout of 30000 ms exceeded"
    [] stage = "content" -> "Execution context was destroyed"

\* The messages of the errors of extractUrlData (Japanese in the source:
\* "no URL was given" and "the analysis of the URL failed: ").
MissingUrlMessage == "URL ga shitei sarete imasen"
ExtractionFailedPrefix == "URL kaiseki ni shippai shimashita: "

(***************************************************************************)
(* State.                                                                  *)
(*   pc                  position of the invocation: "idle", the awaits of *)
(*                       extractUrlData ("fetch", "text") and of           *)
(*                       fetchWithPuppeteer ("launch", "newPage",          *)
(*                       "setUserAgent", "goto", "settle", "content",      *)
(*                       "close"), "done" (returned), "failed" (threw)     *)
(*   url, html, shouldUsePuppeteer   the locals of extractUrlData          *)
(*   timer               the abort timer: "unset", "armed", "cleared",     *)
(*                       "fired"                                           *)
(*   browser             the browser of fetchWithPuppeteer: "undefined",   *)
(*                       "open" (process running), "closed"                *)
(*   pending             the completion fetchWithPuppeteer holds while its *)
(*                       finally block runs: return html or throw error    *)
(*   result, error       the record returned or the error thrown           *)
(*   now                 the clock                                         *)
(*   fetchCalls, renderCalls   calls of fetch and of fetchWithPuppeteer in *)
(*                       this invocation                                   *)
(*   staticHtml          the text response.text() delivered, if any        *)
(*   staticError         the message of the error caught by the inner      *)
(*                       catch, if any                                     *)
(*   renderError         the message of the error thrown by                *)
(*                       fetchWithPuppeteer, if any                        *)
(***************************************************************************)
VARIABLES pc, url, html, shouldUsePuppeteer, timer, browser, pending,
          result, error, now, fetchCalls, renderCalls,
          staticHtml, staticError, renderError

vars == << pc, url, html, shouldUsePuppeteer, timer, browser, pending,
           result, error, now, fetchCalls, renderCalls,
           staticHtml, staticError, renderError >>

RenderStages == {"launch", "newPage", "setUserAgent", "goto", "settle", "content", "close"}

Init ==
  /\ pc = "idle"
  /\ url = Null
  /\ html = ""
  /\ shouldUsePuppeteer = FALSE
  /\ timer = "unset"
  /\ browser = "undefined"
  /\ pending = <<>>
  /\ result = <<>>
  /\ error = <<>>
  /\ now = 0
  /\ fetchCalls = 0
  /\ renderCalls = 0
  /\ staticHtml = Null
  /\ staticError = Null
  /\ renderError = Null

\* Variant: the missing-URL check sits inside the try block, so its error is
\* wrapped by the outer catch.
extractUrlDataCheckInsideTry(formUrl) ==
  /\ pc \in {"idle", "done", "failed"}
  /\ url' = formUrl
  /\ html' = ""
  /\ shouldUsePuppeteer' = FALSE
  /\ browser' = "undefined"
  /\ pending' = <<>>
  /\ result' = <<>>
  /\ renderCalls' = 0
  /\ staticHtml' = Null
  /\ staticError' = Null
  /\ renderError' = Null
  /\ IF ~Truthy(formUrl)
     THEN /\ pc' = "failed"
          /\ error' = <<[message |-> ExtractionFailedPrefix \o MissingUrlMessage]>>
          /\ timer' = "unset"
          /\ fetchCalls' = 0
     ELSE /\ pc' = "fetch"
          /\ error' = <<>>
          /\ timer' = "armed"
          /\ fetchCalls' = 1
  /\ UNCHANGED now

\* The entry of extractUrlData up to its first await: the missing-URL check
\* before the try block, then the abort timer and the fetch.
extractUrlData(formUrl) ==
  /\ pc \in {"idle", "done", "failed"}
  /\ url' = formUrl
  /\ html' = ""
  /\ shouldUsePuppeteer' = FALSE
  /\ browser' = "undefined"
  /\ pending' = <<>>
  /\ result' = <<>>
  /\ renderCalls' = 0
  /\ staticHtml' = Null
  /\ staticError' = Null
  /\ renderError' = Null
  /\ IF ~Truthy(formUrl)
     THEN /\ pc' = "failed"
          /\ error' = <<[message |-> MissingUrlMessage]>>
          /\ timer' = "unset"
          /\ fetchCalls' = 0
     ELSE /\ pc' = "fetch"
          /\ error' = <<>>
          /\ timer' = "armed"
          /\ fetchCalls' = 1
  /\ UNCHANGED now

\* Variant: the inner catch block logs the error and falls through to the
\* extractor without setting shouldUsePuppeteer.
CatchStaticErrorNoFallback(message) ==
  /\ staticError' = Str(message)
  /\ pc' = "done"
  /\ result' = <<ArticleData(JSDOM(html), url[1], now)>>
  /\ UNCHANGED << url, html, shouldUsePuppeteer, browser, pending, error, now,
                  fetchCalls, renderCalls, staticHtml, renderError >>

\* The inner catch block followed by `if (shouldUsePuppeteer)`: the error is
\* logged and dropped, and fetchWithPuppeteer is called; it runs up to the
\* await of puppeteer.launch.
CatchStaticError(message) ==
  /\ staticError' = Str(message)
  /\ shouldUsePuppeteer' = TRUE
  /\ renderCalls' = renderCalls + 1
  /\ pc' = "launch"
  /\ UNCHANGED << url, html, browser, pending, result, error, now, fetchCalls,
                  staticHtml, renderError >>

\* Variant: the outer catch block drops the message of the error it caught.
ThrowExtractionFailedNoMessage(message) ==
  /\ pc' = "failed"
  /\ error' = <<[message |-> ExtractionFailedPrefix]>>
  /\ result' = <<>>

\* The outer catch block: the generic error that wraps the message.
ThrowExtractionFailed(message) ==
  /\ pc' = "failed"
  /\ error' = <<[message |-> ExtractionFailedPrefix \o message]>>
  /\ result' = <<>>

\* The synchronous tail of extractUrlData on the text h: parse, extract, return.
ReturnArticleData(h) ==
  /\ pc' = "done"
  /\ result' = <<ArticleData(JSDOM(h), url[1], now)>>
  /\ error' = <<>>

\* The fetch promise resolves with a response: the timer is cleared; a
\* response that is not ok throws into the inner catch.
FetchResolve(st) ==
  /\ pc = "fetch"
  /\ IsValidUrl(url[1])
  /\ timer' = "cleared"
  /\ IF ~ResponseOk(st)
     THEN CatchStaticError("HTTP " \o Pad3(st) \o ": " \o StatusText(st))
     ELSE /\ pc' = "text"
          /\ UNCHANGED << url, html, shouldUsePuppeteer, browser, pending, result,
                          error, now, fetchCalls, renderCalls, staticHtml,
                          staticError, renderError >>

\* The fetch promise rejects (network failure, or a URL that does not parse);
\* clearTimeout is skipped.
FetchReject ==
  /\ pc = "fetch"
  /\ CatchStaticError(FetchFailedMessage)
  /\ UNCHANGED timer

\* The 10 second timer fires: controller.abort().  A fetch still pending is
\* rejected; after the fetch has settled the abort has no effect.
TimerFire ==
  /\ timer = "armed"
  /\ timer' = "fired"
  /\ IF pc = "fetch"
     THEN CatchStaticError(AbortedMessage)
     ELSE UNCHANGED << pc, url, html, shouldUsePuppeteer, browser, pending, result,
                       error, now, fetchCalls, renderCalls, staticHtml,
                       staticError, renderError >>

\* response.text() resolves with the text of document d; then
\* checkIfJavaScriptRequired decides between the renderer and the extractor.
TextResolve(d) ==
  /\ pc = "text"
  /\ html' = Serialize(d)
  /\ staticHtml' = Str(Serialize(d))
  /\ IF checkIfJavaScriptRequired(Serialize(d), url[1])
     THEN /\ shouldUsePuppeteer' = TRUE
          /\ renderCalls' = renderCalls + 1
          /\ pc' = "launch"
          /\ UNCHANGED << result, error >>
     ELSE /\ ReturnArticleData(Serialize(d))
          /\ UNCHANGED << shouldUsePuppeteer, renderCalls >>
  /\ UNCHANGED << url, timer, browser, pending, now, fetchCalls, staticError,
                  renderError >>

\* response.text() rejects while the body is read.
TextReject ==
  /\ pc = "text"
  /\ CatchStaticError(BodyFailedMessage)
  /\ UNCHANGED timer

(***************************************************************************)
(* fetchWithPuppeteer                                                      *)
(***************************************************************************)
\* puppeteer.launch resolves: the browser process runs.
LaunchResolve ==
  /\ pc = "launch"
  /\ browser' = "open"
  /\ pc' = "newPage"
  /\ UNCHANGED << url, html, shouldUsePuppeteer, timer, pending, result, error, now,
                  fetchCalls, renderCalls, staticHtml, staticError, renderError >>

\* puppeteer.launch rejects: no browser was launched, the finally block finds
\* browser undefined, and the error reaches the outer catch of extractUrlData.
LaunchReject ==
  /\ pc = "launch"
  /\ renderError' = Str(LaunchFailedMessage)
  /\ ThrowExtractionFailed(LaunchFailedMessage)
  /\ UNCHANGED << url, html, shouldUsePuppeteer, timer, browser, pending, now,
                  fetchCalls, renderCalls, staticHtml, staticError >>

\* The stage that follows an await of the try block of fetchWithPuppeteer.
NextStage(stage) ==
  CASE stage = "newPage" -> "setUserAgent"
    [] stage = "setUserAgent" -> "goto"
    [] stage = "goto" -> "settle"
    [] stage = "settle" -> "content"

\* browser.newPage, page.setUserAgent or page.goto resolves, or the 2 second
\* settle timer elapses.  page.goto resolves only for a URL that parses.
PageStepResolve ==
  /\ pc \in {"newPage", "setUserAgent", "goto", "settle"}
  /\ pc = "goto" => IsValidUrl(url[1])
  /\ pc' = NextStage(pc)
  /\ UNCHANGED << url, html, shouldUsePuppeteer, timer, browser, pending, result,
                  error, now, fetchCalls, renderCalls, staticHtml, staticError,
                  renderError >>

\* Variant: no finally block; a rejected step leaves fetchWithPuppeteer at once.
PageStepRejectNoFinally ==
  /\ pc \in {"newPage", "setUserAgent", "goto", "content"}
  /\ renderError' = Str(StepFailedMessage(pc))
  /\ pc' = "failed"
  /\ error' = <<[message |-> ExtractionFailedPrefix \o StepFailedMessage(pc)]>>
  /\ result' = <<>>
  /\ UNCHANGED << url, html, shouldUsePuppeteer, timer, browser, pending, now,
                  fetchCalls, renderCalls, staticHtml, staticError >>

\* browser.newPage, page.setUserAgent, page.goto or page.content rejects: the
\* finally block starts browser.close() and holds the error until it resolves.
PageStepReject ==
  /\ pc \in {"newPage", "setUserAgent", "goto", "content"}
  /\ pending' = <<[kind |-> "throw", value |-> StepFailedMessage(pc)]>>
  /\ pc' = "close"
  /\ UNCHANGED << url, html, shouldUsePuppeteer, timer, browser, result, error, now,
                  fetchCalls, renderCalls, staticHtml, staticError, renderError >>

\* page.content() resolves with the text of the rendered document d: the
\* finally block starts browser.close() and holds the return value.
ContentResolve(d) ==
  /\ pc = "content"
  /\ pending' = <<[kind |-> "return", value |-> Serialize(d)]>>
  /\ pc' = "close"
  /\ UNCHANGED << url, html, shouldUsePuppeteer, timer, browser, result, error, now,
                  fetchCalls, renderCalls, staticHtml, staticError, renderError >>

\* Variant: a text read by the static fetch is kept, the rendered text is used
\* only when there is none; a failed render falls back to the static text.
CloseResolveKeepStatic ==
  /\ pc = "close"
  /\ browser' = "closed"
  /\ pending' = <<>>
  /\ IF html # ""
     THEN /\ ReturnArticleData(html)
          /\ UNCHANGED << html, renderError >>
     ELSE IF pending[1].kind = "return"
     THEN /\ html' = pending[1].value
          /\ ReturnArticleData(pending[1].value)
          /\ UNCHANGED renderError
     ELSE /\ renderError' = Str(pending[1].value)
          /\ ThrowExtractionFailed(pending[1].value)
          /\ UNCHANGED html
  /\ UNCHANGED << url, shouldUsePuppeteer, timer, now, fetchCalls, renderCalls,
                  staticHtml, staticError >>

\* browser.close() resolves: the process has ended, and fetchWithPuppeteer
\* completes with what it held.  A returned text is assigned to html and
\* extracted; a held error reaches the outer catch of extractUrlData.
CloseResolve ==
  /\ pc = "close"
  /\ browser' = "closed"
  /\ pending' = <<>>
  /\ IF pending[1].kind = "return"
     THEN /\ html' = pending[1].value
          /\ ReturnArticleData(pending[1].value)
          /\ UNCHANGED renderError
     ELSE /\ renderError' = Str(pending[1].value)
          /\ ThrowExtractionFailed(pending[1].value)
          /\ UNCHANGED html
  /\ UNCHANGED << url, shouldUsePuppeteer, timer, now, fetchCalls, renderCalls,
                  staticHtml, staticError >>

\* Time passes.
Tick ==
  /\ now < MaxClock
  /\ now' = now + 1
  /\ UNCHANGED << pc, url, html, shouldUsePuppeteer, timer, browser, pending, result,
                  error, fetchCalls, renderCalls, staticHtml, staticError,
                  renderError >>

Next ==
  \/ \E formUrl \in UrlInputs : extractUrlData(formUrl)
  \/ \E st \in Statuses : FetchResolve(st)
  \/ FetchReject
  \/ TimerFire
  \/ \E d \in Documents : TextResolve(d)
  \/ TextReject
  \/ LaunchResolve
  \/ LaunchReject
  \/ PageStepResolve
  \/ PageStepReject
  \/ \E d \in Documents : ContentResolve(d)
  \/ CloseResolve
  \/ Tick

Spec == Init /\ [][Next]_vars

(***************************************************************************)
(* Vocabulary of the properties, stated independently of the operators     *)
(* that model the code.                                                    *)
(***************************************************************************)
\* The invocation has ended: it returned a record or threw.
Ended == pc \in {"done", "failed"}

\* The static stage of the invocation is over.
StaticStageOver == pc \notin {"idle", "fetch", "text"}

\* The text contains none of the five framework markers.
MarkerFree(h) ==
  \A m \in {"id=\"__next\"", "id=\"root\"", "id=\"app\"", "data-reactroot", "__NUXT__"} :
    ~Includes(h, m)

AllowList == {"qiita.com", "zenn.dev", "note.com", "medium.com"}

\* The hostname has an allow-listed domain name as a substring.
ContainsAllowListedName(h) == \E dn \in AllowList : Includes(h, dn)

\* C1 (as stated): a 2xx static response whose body has no framework marker
\* never leads to a call of the renderer.
C1_Original ==
  (staticHtml # Null /\ MarkerFree(staticHtml[1])) => renderCalls = 0

\* C1 (amended): a 2xx static response whose body has no framework marker,
\* for a URL whose hostname contains no allow-listed domain name, never leads
\* to a call of the renderer: no call is counted, no renderer stage is
\* entered and no browser is launched.
C1_NoRenderForPlainStaticPage ==
  (/\ staticHtml # Null
   /\ MarkerFree(staticHtml[1])
   /\ ~ContainsAllowListedName(Hostname(url[1])))
  => (renderCalls = 0 /\ pc \notin RenderStages /\ browser = "undefined"
      /\ ~shouldUsePuppeteer)

C1_Witness ==
  /\ pc = "done"
  /\ staticHtml # Null
  /\ MarkerFree(staticHtml[1])
  /\ ~ContainsAllowListedName(Hostname(url[1]))
  /\ renderCalls = 0
  /\ result # <<>>

\* C2: for a URL whose hostname is in the allow-list, the renderer has been
\* called once the static stage is over, however the static stage ended.
C2_AllowListedHostRenders ==
  (/\ Truthy(url)
   /\ IsValidUrl(url[1])
   /\ Hostname(url[1]) \in AllowList
   /\ StaticStageOver)
  => (renderCalls = 1 /\ shouldUsePuppeteer)

C2_Witness ==
  /\ pc = "done"
  /\ Hostname(url[1]) \in AllowList
  /\ staticHtml # Null
  /\ MarkerFree(staticHtml[1])
  /\ staticError = Null
  /\ renderCalls = 1

\* C3: a static stage that ended with an error (non-2xx status, network
\* failure, abort) is followed by the renderer; fetch is called at most once
\* and the renderer at most once per invocation, and the renderer is called
\* only after the static stage is over.
C3_SingleFallback ==
  /\ fetchCalls <= 1
  /\ renderCalls <= 1
  /\ renderCalls = 1 => (StaticStageOver /\ fetchCalls = 1)
  /\ pc \in RenderStages => renderCalls = 1
  /\ staticError # Null => (StaticStageOver /\ renderCalls = 1 /\ shouldUsePuppeteer)

C3_Witness ==
  /\ pc = "done"
  /\ staticError # Null
  /\ StartsWith(staticError[1], "HTTP 404")
  /\ fetchCalls = 1
  /\ renderCalls = 1

\* C4: outside fetchWithPuppeteer no launched browser is open: when control
\* is back in the caller, also after an error of newPage, setUserAgent, goto
\* or content, the browser that was launched has been closed.
C4_BrowserClosedOnExit ==
  /\ pc \notin RenderStages => browser # "open"
  /\ (Ended /\ renderCalls = 1 /\ renderError # Str(LaunchFailedMessage))
       => browser = "closed"

C4_Witness ==
  /\ pc = "failed"
  /\ renderError = Str("Navigation timeout of 30000 ms exceeded")
  /\ browser = "closed"

\* C5: with no url value (absent or empty) the invocation fails at once with
\* the missing-URL error, not wrapped in the extraction-failed error, before
\* any fetch or render is started.
C5_MissingUrlFailsImmediately ==
  (pc # "idle" /\ (url = Null \/ url = Str("")))
  => /\ pc = "failed"
     /\ error # <<>>
     /\ error[1].message = "URL ga shitei sarete imasen"
     /\ ~StartsWith(error[1].message, "URL kaiseki")
     /\ fetchCalls = 0
     /\ renderCalls = 0
     /\ timer = "unset"
     /\ browser = "undefined"
     /\ result = <<>>

C5_Witness ==
  /\ pc = "failed"
  /\ url = Str("")
  /\ error = <<[message |-> "URL ga shitei sarete imasen"]>>
  /\ fetchCalls = 0

\* The first failure of the invocation, static or render.
FirstFailure == IF staticError # Null THEN staticError ELSE renderError

\* C6 (as stated): after any failure during fetch or render the invocation
\* ends with the extraction-failed error that carries the message of that
\* failure, and returns no record.
C6_Original ==
  (Ended /\ Truthy(url) /\ FirstFailure # Null)
  => /\ pc = "failed"
     /\ result = <<>>
     /\ error = <<[message |-> "URL kaiseki ni shippai shimashita: " \o FirstFailure[1]]>>

\* C6 (amended): a failure of the renderer is re-raised as the one
\* extraction-failed error that carries the message of that failure, and no
\* record is returned; with a non-empty URL this is the only way the
\* invocation fails, a failure of the static stage being absorbed by the
\* fallback; an invocation never leaves both a record and an error.
C6_RenderFailureIsWrapped ==
  /\ renderError # Null
       => /\ pc = "failed"
          /\ result = <<>>
          /\ error = <<[message |-> "URL kaiseki ni shippai shimashita: "
                                       \o renderError[1]]>>
  /\ (pc = "failed" /\ Truthy(url)) => renderError # Null
  /\ pc = "failed" => result = <<>>
  /\ pc = "done" => (error = <<>> /\ result # <<>>)

C6_Witness ==
  /\ pc = "failed"
  /\ staticError = Str("fetch failed")
  /\ renderError = Str("Execution context was destroyed")
  /\ error = <<[message |-> "URL kaiseki ni shippai shimashita: Execution context was destroyed"]>>

(***************************************************************************)
(* Whitespace normalization stated on words: the maximal runs of           *)
(* non-whitespace characters of a text, joined by single spaces.           *)
(***************************************************************************)
IsWs(s, i) == CharAt(s, i) \in {" ", "\t", "\n", "\r", "\f"}

RECURSIVE LastWordChar(_, _, _)
\* The greatest index in lo..hi of a non-whitespace character of s, or 0.
LastWordChar(s, lo, hi) ==
  IF lo > hi THEN 0
  ELSE IF lo = hi THEN (IF IsWs(s, lo) THEN 0 ELSE lo)
  ELSE LET mid == (lo + hi) \div 2
           r == LastWordChar(s, mid + 1, hi)
       IN IF r # 0 THEN r ELSE LastWordChar(s, lo, mid)

RECURSIVE FirstWordChar(_, _, _)
\* The least index in lo..hi of a non-whitespace character of s, or 0.
FirstWordChar(s, lo, hi) ==
  IF lo > hi THEN 0
  ELSE IF lo = hi THEN (IF IsWs(s, lo) THEN 0 ELSE lo)
  ELSE LET mid == (lo + hi) \div 2
           l == FirstWordChar(s, lo, mid)
       IN IF l # 0 THEN l ELSE FirstWordChar(s, mid + 1, hi)

RECURSIVE JoinRange(_, _, _, _)
\* The characters lo..hi of s as they appear among the joined words: a word
\* character stays; the whitespace character right after a word becomes the
\* separating space if another word follows; any other whitespace goes.
JoinRange(s, lo, hi, last) ==
  IF lo > hi THEN ""
  ELSE IF lo = hi
       THEN IF ~IsWs(s, lo) THEN CharAt(s, lo)
            ELSE IF lo > 1 /\ ~IsWs(s, lo - 1) /\ lo < last THEN " "
            ELSE ""
  ELSE LET mid == (lo + hi) \div 2
       IN JoinRange(s, lo, mid, last) \o JoinRange(s, mid + 1, hi, last)

\* The text with every whitespace run collapsed to one space and the ends
\* trimmed.
WordsJoined(s) == JoinRange(s, 1, Len(s), LastWordChar(s, 1, Len(s)))

\* The text from its first to its last non-whitespace character.
Trimmed(s) ==
  IF FirstWordChar(s, 1, Len(s)) = 0 THEN ""
  ELSE SubSeq(s, FirstWordChar(s, 1, Len(s)), LastWordChar(s, 1, Len(s)))

\* Whether a text is whitespace-normalized: its only whitespace is single
\* spaces between words.
IsNormalized(s) ==
  \A i \in 1..Len(s) :
    IsWs(s, i) => /\ CharAt(s, i) = " "
                  /\ i > 1 /\ i < Len(s)
                  /\ ~IsWs(s, i - 1)

\* The first n characters of the text.
FirstChars(s, n) == IF Len(s) > n THEN SubSeq(s, 1, n) ELSE s

\* The text of a string-or-null value ("" for null).
TextOrEmpty(v) == IF v = Null THEN "" ELSE v[1]

\* C7: each display field of a returned record is its selected source text
\* with whitespace runs collapsed to one space and the ends trimmed, cut to
\* its first 255 characters; it never exceeds 255 characters, a title of 300
\* non-whitespace characters gives exactly 255 characters, and "a\n\n  b"
\* gives "a b".
C7_DisplayFieldsNormalizedAndCut ==
  pc = "done" =>
    LET document == JSDOM(html)
        r == result[1]
        title == TextOrEmpty(SelectedTitle(document))
        description == TextOrEmpty(SelectedDescription(document))
        siteName == TextOrEmpty(SelectedSiteName(document, url[1]))
    IN /\ r.title = FirstChars(WordsJoined(title), 255)
       /\ r.description = FirstChars(WordsJoined(description), 255)
       /\ r.siteName = FirstChars(WordsJoined(siteName), 255)
       /\ Len(r.title) <= 255 /\ Len(r.description) <= 255 /\ Len(r.siteName) <= 255
       /\ (Len(title) >= 300 /\ \A i \in 1..Len(title) : ~IsWs(title, i))
            => Len(r.title) = 255
       /\ description = "a\n\n  b" => r.description = "a b"

C7_Witness ==
  /\ pc = "done"
  /\ html = Serialize(DocLong)
  /\ Len(TextOrEmpty(SelectedTitle(JSDOM(html)))) >= 300
  /\ Len(result[1].title) = 255
  /\ Len(TextOrEmpty(SelectedDescription(JSDOM(html)))) = 300
  /\ Len(result[1].description) = 255
  /\ result[1].siteName = "My Site"

(***************************************************************************)
(* ISO-8601 instants, read back from the text.                             *)
(***************************************************************************)
IsDigitAt(s, i) == CharAt(s, i) \in {"0", "1", "2", "3", "4", "5", "6", "7", "8", "9"}
DigitAt(s, i) == IndexOfFrom("0123456789", CharAt(s, i), 1) - 1
NumAt(s, i, n) ==
  IF n = 2 THEN 10 * DigitAt(s, i) + DigitAt(s, i + 1)
  ELSE 100 * DigitAt(s, i) + 10 * DigitAt(s, i + 1) + DigitAt(s, i + 2)

\* YYYY-MM-DDTHH:mm:ss.sssZ with fields in range.
IsIso8601(s) ==
  /\ Len(s) = 24
  /\ \A i \in {1, 2, 3, 4, 6, 7, 9, 10, 12, 13, 15, 16, 18, 19, 21, 22, 23} : IsDigitAt(s, i)
  /\ CharAt(s, 5) = "-" /\ CharAt(s, 8) = "-" /\ CharAt(s, 11) = "T"
  /\ CharAt(s, 14) = ":" /\ CharAt(s, 17) = ":" /\ CharAt(s, 20) = "."
  /\ CharAt(s, 24) = "Z"
  /\ NumAt(s, 6, 2) \in 1..12 /\ NumAt(s, 9, 2) \in 1..31
  /\ NumAt(s, 12, 2) < 24 /\ NumAt(s, 15, 2) < 60 /\ NumAt(s, 18, 2) < 60

\* The milliseconds since the epoch of an instant of 1970-01-01.
IsoMillis(s) ==
  3600000 * NumAt(s, 12, 2) + 60000 * NumAt(s, 15, 2) + 1000 * NumAt(s, 18, 2)
    + NumAt(s, 21, 3)

\* The document has no meta, h1, title or time element.
NoMetadataSources(document) ==
  \A k \in 1..Len(Preorder(document)) :
    Preorder(document)[k].tag \notin {"meta", "h1", "title", "time"}

\* C8: a record returned for a page without any metadata source has the
\* placeholder title, the empty description, the ISO-8601 text of the clock
\* at the return as publishedAt, and the input URL unchanged as url; all
\* seven fields are present and are strings.
C8_DefaultsWhenNoMetadata ==
  [][ (pc # "done" /\ pc' = "done" /\ NoMetadataSources(JSDOM(html')))
      => /\ result'[1].title = "(no title)"
         /\ result'[1].description = ""
         /\ IsIso8601(result'[1].publishedAt)
         /\ SubSeq(result'[1].publishedAt, 1, 10) = "1970-01-01"
         /\ IsoMillis(result'[1].publishedAt) = now'
         /\ result'[1].url = url[1]
         /\ url' = url
         /\ DOMAIN result'[1] = {"url", "siteName", "title", "description",
                                 "publishedAt", "thumbnail", "content"}
         /\ \A f \in DOMAIN result'[1] : result'[1][f] \in STRING ]_vars

C8_Witness ==
  /\ pc = "done"
  /\ NoMetadataSources(JSDOM(html))
  /\ html = Serialize(DocBare)
  /\ result[1].title = "(no title)"
  /\ now = 1
  /\ result[1].publishedAt = "1970-01-01T00:00:00.001Z"

(***************************************************************************)
(* The metadata lookup as C9 describes it.                                 *)
(***************************************************************************)
\* The content of the first meta element with the attribute, "" if there is
\* none or it has no content.
VariantContent(document, attr, key) ==
  LET e == querySelector(document, "meta[" \o attr \o "=\"" \o key \o "\"]")
  IN IF e = <<>> THEN "" ELSE TextOrEmpty(getAttribute(e[1], "content"))

\* The six variants of a field, in order.
Variants(key) ==
  << <<"property", key>>, <<"name", key>>,
     <<"property", "og:" \o key>>, <<"name", "og:" \o key>>,
     <<"property", "twitter:" \o key>>, <<"name", "twitter:" \o key>> >>

\* The content of the first variant whose content is non-empty, "" if none.
FirstNonEmptyVariant(document, key) ==
  LET ks == {k \in 1..6 :
               VariantContent(document, Variants(key)[k][1], Variants(key)[k][2]) # ""}
  IN IF ks = {} THEN ""
     ELSE LET k == CHOOSE a \in ks : \A b \in ks : a <= b
          IN VariantContent(document, Variants(key)[k][1], Variants(key)[k][2])

\* C9 (as stated): the title and the description of a returned record come
\* from the first variant with non-empty content; a variant present with
\* empty or missing content does not hide a later one, and the structural
\* heuristics and the default are used only when no variant has content.
C9_FirstNonEmptyVariantWins ==
  pc = "done" =>
    LET document == JSDOM(html)
        metaTitle == FirstNonEmptyVariant(document, "title")
        title == IF metaTitle # "" THEN metaTitle
                 ELSE TextOrEmpty(Or(TextOf(document, "h1"),
                                  Or(TextOf(document, "title"), Str("(no title)"))))
    IN /\ result[1].title = FirstChars(WordsJoined(title), 255)
       /\ result[1].description
            = FirstChars(WordsJoined(FirstNonEmptyVariant(document, "description")), 255)

(***************************************************************************)
(* The body excerpt as C10 describes it.                                   *)
(***************************************************************************)
RECURSIVE VisibleText(_), VisibleTextOfKids(_, _)
\* The text of the subtree of node outside its script, style, nav, header,
\* footer and aside descendants.
VisibleText(node) ==
  IF node.tag = "#text" THEN node.text ELSE VisibleTextOfKids(node.kids, 1)
VisibleTextOfKids(kids, i) ==
  IF i > Len(kids) THEN ""
  ELSE (IF kids[i].tag \in {"script", "style", "nav", "header", "footer", "aside"}
        THEN "" ELSE VisibleText(kids[i]))
       \o VisibleTextOfKids(kids, i + 1)

\* The content selectors that match some element of the document.
MatchingContentSelectors(document) ==
  {k \in 1..Len(contentSelectors) : querySelector(document, contentSelectors[k]) # <<>>}

\* C10: the content of a returned record is the whitespace-normalized first
\* 300 characters of the text, noise descendants removed, of the first
\* element matched by the earliest matching content selector; when no
\* selector matches it is the whitespace-normalized first 1000 characters of
\* the text of the body, noise removed; it is at most 300, respectively 1000,
\* characters long.
C10_ContentExcerpt ==
  pc = "done" =>
    LET document == JSDOM(html)
        ks == MatchingContentSelectors(document)
        content == result[1].content
    IN /\ IsNormalized(content)
       /\ IF ks # {}
          THEN LET k == CHOOSE a \in ks : \A b \in ks : a <= b
                   element == querySelector(document, contentSelectors[k])[1]
               IN /\ content = WordsJoined(FirstChars(Trimmed(VisibleText(element)), 300))
                  /\ Len(content) <= 300
          ELSE LET body == querySelector(document, "body")[1]
               IN /\ content = WordsJoined(FirstChars(Trimmed(VisibleText(body)), 1000))
                  /\ Len(content) <= 1000

C10_Witness ==
  /\ pc = "done"
  /\ html = Serialize(DocPlain)
  /\ MatchingContentSelectors(JSDOM(html)) = {1, 2, 6}
  /\ Len(Trimmed(VisibleText(querySelector(JSDOM(html), "article")[1]))) > 300
  /\ StartsWith(result[1].content, "ab ab")
  /\ Len(result[1].content) <= 300

\* C11 (as stated): while the static stage is in progress, the request
\* pending or the response body being read, the 10 second abort timer is
\* armed, so that its firing ends the stage.
C11_TimerArmedDuringStaticStage ==
  pc \in {"fetch", "text"} => timer = "armed"

\* The hostname is an allow-listed domain or a subdomain of one.
IsAllowListedHost(h) ==
  \E dn \in AllowList :
    \/ h = dn
    \/ /\ Len(h) > Len(dn) + 1
       /\ SubSeq(h, Len(h) - Len(dn), Len(h)) = "." \o dn

\* C12 (as stated): applied to the text of the static response and the URL,
\* checkIfJavaScriptRequired yields true exactly when the hostname is an
\* allow-listed domain (or a subdomain of one) or the text contains a
\* framework marker; any other hostname with marker-free text yields false.
C12_TrueIffAllowListedOrMarker ==
  staticHtml # Null =>
    (shouldUsePuppeteer
       <=> (IsAllowListedHost(Hostname(url[1])) \/ ~MarkerFree(staticHtml[1])))

\* C13: when the renderer was called, a record is returned only by the step
\* that completes the renderer, and it is the record extracted from the text
\* the renderer returned, which also replaces html; the text of the static
\* response is not used.  When the renderer fails the invocation fails and
\* returns no record, also when a static text had been read.
C13_RenderedHtmlOnly ==
  [][ /\ (pc # "done" /\ pc' = "done" /\ renderCalls' = 1)
           => /\ pc = "close"
              /\ pending[1].kind = "return"
              /\ html' = pending[1].value
              /\ result' = <<ArticleData(JSDOM(pending[1].value), url[1], now)>>
      /\ renderError' # Null
           => /\ pc' = "failed"
              /\ result' = <<>> ]_vars

C13_Witness ==
  /\ pc = "done"
  /\ renderCalls = 1
  /\ staticHtml = Str(Serialize(DocPlain))
  /\ html = Serialize(DocRendered)
  /\ result[1].title = "Rendered Title"
  /\ result[1].content = "Rendered text"
  /\ result[1] # ArticleData(JSDOM(staticHtml[1]), url[1], now)
====
